---------------------------- MODULE Spec2Model ----------------------------
(* A model of prompt-lsp's analysis pipeline: the result cache               *)
(* (src/src/cache.ts), the semantic-analysis orchestrator                    *)
(* (src/src/analyzers/llm.ts) and the per-document scheduling of the         *)
(* language server (src/src/server.ts, the second unit of the file, from     *)
(* line 545 on).                                                             *)
EXTENDS Integers, Sequences, FiniteSets, Bags, TLC

VARIABLES
    cache,      \* AnalysisCache.cache: the Map's entries in the Map's iteration order
    now,        \* Date.now()
    lastOp,     \* the last call made on the cache from outside, with what it returned
    proxyFn,    \* LLMAnalyzer.proxyFn: TRUE once setProxyFn was called
    call,       \* the LLMAnalyzer.analyze call in progress, if any
    clientRequests,     \* per sub-analysis, the client's handling of its promptLSP/llmRequest
    applied,            \* the last application of a pure function: its arguments and result
    docs,               \* documents: per uri, whether it is open, its version and text
    documentVersions,   \* documentVersions: the version the last full run started with (0: no entry)
    recentlyOpened,     \* recentlyOpened
    llmDebounceTimers,  \* llmDebounceTimers: the handle stored per uri
    armed,              \* per uri, the timers set and neither cleared nor fired
    runs,               \* the runFullAnalysis calls in flight, each at one of its awaits
    published,          \* per uri, the last connection.sendDiagnostics
    fileText,           \* the content of the file the composition link of a text points to
    dispatching,        \* the uri whose open notification is being dispatched, or "none"
    lastEvent           \* what the last step did: a content event, a full publication, or neither

cacheVars == <<cache, now, lastOp>>

\* the analyzer, the client that serves its requests, and the pure functions:
\* what the cache and the scheduling handlers leave alone
llmVars == <<proxyFn, call, clientRequests, applied>>

clientVars == <<clientRequests, applied>>

serverVars == <<docs, documentVersions, recentlyOpened, llmDebounceTimers, armed, runs,
                published, fileText, dispatching, lastEvent>>

vars == <<cache, now, lastOp, proxyFn, call, clientRequests, applied, docs, documentVersions, recentlyOpened,
          llmDebounceTimers, armed, runs, published, fileText, dispatching, lastEvent>>

-----------------------------------------------------------------------------
(* Bounds of the model *)

\* the clock stops advancing at MaxTime
MaxTime == 3

\* a document is edited up to version MaxVersion
MaxVersion == 3

\* at most MaxRuns full-pipeline runs are in flight at once
MaxRuns == 2

\* linked files hold up to MaxLinkedLen characters
MaxLinkedLen == 8

\* link targets are written with up to MaxTargetLen characters
MaxTargetLen == 5

\* documents given to the static analyzer have up to MaxLines lines
MaxLines == 2

\* documents given to the header parser have up to MaxHeaderLines lines
MaxHeaderLines == 4

-----------------------------------------------------------------------------
(* Result cache: src/src/cache.ts *)

\* constructor(ttlMs, maxEntries): the two parameters, scaled down
defaultTTL == 2
maxEntries == 2

\* the capacity of a cache constructed without arguments, as the server does
DefaultMaxEntries == 100

\* computeHash: sha256 of the string passed in, modelled as injective; a
\* composite string is the sequence of its parts
computeHash(content) == content

Hashes == {computeHash(<<"plain">>), computeHash(<<"linked", "x">>),
           computeHash(<<"linked", "y">>)}

\* An AnalysisResult, reduced to its code, its severity and what it was computed from
Finding(code, severity, text, link) ==
    [code |-> code, severity |-> severity, text |-> text, link |-> link]

SampleResults == {<<>>, <<Finding("weak-language", "warning", "plain", "-")>>}

\* ttl arguments of set: 0 stands for an omitted (or zero) argument
TTLArgs == {0, 1}

\* an expiry test that is late by one
ExpiredLate(entry, t) == t - entry.timestamp > entry.ttl + 1

Expired(entry, t) == t - entry.timestamp > entry.ttl

Keys(m) == {m[i].hash : i \in 1..Len(m)}

Has(m, h) == \E i \in 1..Len(m) : m[i].hash = h

IndexOf(m, h) == CHOOSE i \in 1..Len(m) : m[i].hash = h

EntryOf(m, h) == m[IndexOf(m, h)]

\* Map.delete
MapDelete(m, h) == SelectSeq(m, LAMBDA e : e.hash # h)

\* Map.set: an existing key keeps its place in the iteration order, a new key
\* goes last
MapSet(m, entry) ==
    IF Has(m, entry.hash)
    THEN [i \in 1..Len(m) |-> IF m[i].hash = entry.hash THEN entry ELSE m[i]]
    ELSE Append(m, entry)

\* prune(): drop every expired entry
Prune(m, t) == SelectSeq(m, LAMBDA e : ~Expired(e, t))

\* an eviction loop that deletes the last key instead of the first
RECURSIVE EvictNewest(_, _)
EvictNewest(m, capacity) ==
    IF Len(m) >= capacity /\ Len(m) > 0
    THEN EvictNewest(SubSeq(m, 1, Len(m) - 1), capacity)
    ELSE m

\* the while loop of set(): delete the first key while size >= maxEntries
RECURSIVE Evict(_, _)
Evict(m, capacity) ==
    IF Len(m) >= capacity /\ Len(m) > 0 THEN Evict(Tail(m), capacity) ELSE m

EffectiveTTL(ttl) == IF ttl = 0 THEN defaultTTL ELSE ttl

\* set(hash, results, ttl?) of a cache constructed with the given capacity
CacheSet(m, h, results, ttl, t, capacity) ==
    MapSet(Evict(Prune(m, t), capacity),
           [hash |-> h, results |-> results, timestamp |-> t, ttl |-> EffectiveTTL(ttl)])

\* get(hash): the cache after the call, and what the call returns
CacheGetMap(m, h, t) ==
    IF Has(m, h) /\ Expired(EntryOf(m, h), t) THEN MapDelete(m, h) ELSE m

CacheGetResult(m, h, t) ==
    IF ~Has(m, h) THEN [found |-> "miss", results |-> <<>>]
    ELSE IF Expired(EntryOf(m, h), t) THEN [found |-> "expired", results |-> <<>>]
    ELSE [found |-> "hit", results |-> EntryOf(m, h).results]

\* JSON.stringify of a list of entries: the text is the sequence of the
\* values of the four fields of each entry in turn
RECURSIVE JSONStringify(_)
JSONStringify(entries) ==
    IF entries = <<>> THEN <<>>
    ELSE <<Head(entries).hash, Head(entries).results, Head(entries).timestamp,
           Head(entries).ttl>> \o JSONStringify(Tail(entries))

\* export(): JSON of every entry held
Export(m) == JSONStringify(m)

\* A record of an import payload that JSON.parse yields: a well-formed entry,
\* or null (reading a field of null throws)
NullRecord == [hash |-> <<"null">>, results |-> <<>>, timestamp |-> 0, ttl |-> 0]

\* a loop that stores each record as if set had been called at time t
RECURSIVE ImportLoopRestamped(_, _, _)
ImportLoopRestamped(m, entries, t) ==
    IF entries = <<>> THEN m
    ELSE IF Head(entries) = NullRecord THEN m
    ELSE IF ~Expired(Head(entries), t)
         THEN ImportLoopRestamped(MapSet(m, [Head(entries) EXCEPT !.timestamp = t]),
                                  Tail(entries), t)
         ELSE ImportLoopRestamped(m, Tail(entries), t)

\* the for loop of import(): stops at the first record that throws
RECURSIVE ImportLoop(_, _, _)
ImportLoop(m, entries, t) ==
    IF entries = <<>> THEN m
    ELSE IF Head(entries) = NullRecord THEN m
    ELSE IF ~Expired(Head(entries), t)
         THEN ImportLoop(MapSet(m, Head(entries)), Tail(entries), t)
         ELSE ImportLoop(m, Tail(entries), t)

\* import(data): a payload that JSON.parse rejects is ignored
Import(m, data, t) == IF data.ok THEN ImportLoop(m, data.entries, t) ELSE m

InvalidJSON == [ok |-> FALSE, entries |-> <<>>]

\* JSON.parse of a text: the list of the records whose fields the text holds
RECURSIVE ParsedEntries(_)
ParsedEntries(text) ==
    IF text = <<>> THEN <<>>
    ELSE <<[hash |-> text[1], results |-> text[2], timestamp |-> text[3], ttl |-> text[4]]>>
         \o ParsedEntries(SubSeq(text, 5, Len(text)))

JSONParse(text) ==
    IF Len(text) % 4 = 0 THEN [ok |-> TRUE, entries |-> ParsedEntries(text)] ELSE InvalidJSON

\* Payloads offered to import: invalid JSON, and lists of up to two records
\* taken from entries an export can hold, with null records among them
PayloadHashes == {computeHash(<<"plain">>), computeHash(<<"linked", "x">>)}

PayloadRecords ==
    {[hash |-> h, results |-> <<>>, timestamp |-> ts, ttl |-> 1] :
        h \in PayloadHashes, ts \in {0, MaxTime}} \cup {NullRecord}

\* a record without a hash field: the key it is stored under is undefined
KeylessRecord == [hash |-> <<"undefined">>, results |-> <<>>, timestamp |-> 0, ttl |-> 1]

\* payloads that mix entries with null and keyless records
MixedRecords == PayloadRecords \cup {KeylessRecord}

MixedPayloads ==
    {InvalidJSON}
    \cup {[ok |-> TRUE, entries |-> <<a>>] : a \in MixedRecords}
    \cup {[ok |-> TRUE, entries |-> <<a, b>>] : a \in MixedRecords, b \in MixedRecords}

Payloads ==
    {InvalidJSON}
    \cup {[ok |-> TRUE, entries |-> <<a>>] : a \in PayloadRecords}
    \cup {[ok |-> TRUE, entries |-> <<a, b>>] : a \in PayloadRecords, b \in PayloadRecords}

\* what a call looked like from outside: its arguments, what it returned and
\* how many entries its capacity loop deleted
Op(name, h, ret, ttl, evicted) ==
    [op |-> name, hash |-> h, found |-> ret.found, results |-> ret.results,
     ttl |-> ttl, evicted |-> evicted]

NoRet == [found |-> "-", results |-> <<>>]

NoHash == <<>>

Docs == {"d1", "d2"}

\* the document that Spec opens
LinkingDocs == {"d1"}

\* a text without composition links, and one with a link to the shared file
DocTexts == {"plain", "linked"}

\* two texts without composition links
PlainTexts == {"plain", "revised"}

\* the text each document of PlainSpec has when it is opened
InitialText == [d \in Docs |-> IF d = "d1" THEN "plain" ELSE "revised"]

HasLink(text) == text = "linked"

FileContents == {"x", "y"}

\* a uri the document manager holds no document for
Closed == [open |-> FALSE, version |-> 0, text |-> "plain"]

NoReply == [kind |-> "none", text |-> <<>>]

\* the client is handling no request
NoClientRequest == [phase |-> "none", timer |-> "unset", reply |-> NoReply]

\* no pure function was applied yet
NothingApplied == [fn |-> "none"]

NothingPublished == [kind |-> "none", version |-> 0, results |-> <<>>]

\* neither a content event nor a full publication
NoEvent ==
    [type |-> "none", doc |-> "none", initial |-> FALSE, cancelled |-> FALSE,
     fromCache |-> FALSE, manual |-> FALSE, hashed |-> "-"]

\* onDidChangeContent ran for d: as the initial event of an open or not, and
\* whether it cleared a timer that was armed
Change(d, initial, cancelled) ==
    [NoEvent EXCEPT !.type = "change", !.doc = d, !.initial = initial,
                    !.cancelled = cancelled]

\* a run sent its findings: read from the cache or computed, by a run that
\* promptLSP/analyze started or another, under the digest of this link content
Published(run, fromCache) ==
    [NoEvent EXCEPT !.type = "publish", !.doc = run.doc, !.fromCache = fromCache,
                    !.manual = run.manual, !.hashed = run.hashed]

\* the module state of server.ts, the analyzer, the client and the cache
\* after start-up
BaseInit ==
    /\ cache = <<>>
    /\ now = 0
    /\ lastOp = Op("new", NoHash, NoRet, 0, 0)
    /\ proxyFn = FALSE
    /\ call = [pc |-> "idle"]
    /\ clientRequests = [s \in {"combined", "composed"} |-> NoClientRequest]
    /\ docs = [d \in Docs |-> Closed]
    /\ documentVersions = [d \in Docs |-> 0]
    /\ recentlyOpened = {}
    /\ llmDebounceTimers = [d \in Docs |-> "none"]
    /\ armed = [d \in Docs |-> 0]
    /\ runs = EmptyBag
    /\ published = [d \in Docs |-> NothingPublished]
    /\ fileText = "x"
    /\ dispatching = "none"
    /\ lastEvent = NoEvent

Init ==
    /\ BaseInit
    /\ applied = NothingApplied

CacheInit == Init

Get(h) ==
    /\ cache' = CacheGetMap(cache, h, now)
    /\ lastOp' = Op("get", h, CacheGetResult(cache, h, now), 0, 0)
    /\ UNCHANGED <<now, llmVars, serverVars>>

Set(h, results, ttl) ==
    /\ cache' = CacheSet(cache, h, results, ttl, now, maxEntries)
    /\ lastOp' = Op("set", h, [found |-> "-", results |-> results], ttl,
                    Len(Prune(cache, now)) - Len(Evict(Prune(cache, now), maxEntries)))
    /\ UNCHANGED <<now, llmVars, serverVars>>

Delete(h) ==
    /\ cache' = MapDelete(cache, h)
    /\ lastOp' = Op("delete", h, NoRet, 0, 0)
    /\ UNCHANGED <<now, llmVars, serverVars>>

Clear ==
    /\ cache' = <<>>
    /\ lastOp' = Op("clear", NoHash, NoRet, 0, 0)
    /\ UNCHANGED <<now, llmVars, serverVars>>

PruneCall ==
    /\ cache' = Prune(cache, now)
    /\ lastOp' = Op("prune", NoHash, NoRet, 0, 0)
    /\ UNCHANGED <<now, llmVars, serverVars>>

ImportCall(data) ==
    /\ cache' = Import(cache, data, now)
    /\ lastOp' = Op("import", NoHash, NoRet, 0, 0)
    /\ UNCHANGED <<now, llmVars, serverVars>>

\* time passes
Tick ==
    /\ now < MaxTime
    /\ now' = now + 1
    /\ lastOp' = Op("tick", NoHash, NoRet, 0, 0)
    /\ UNCHANGED <<cache, llmVars, serverVars>>

CacheNext ==
    \/ \E h \in Hashes : Get(h)
    \/ \E h \in Hashes, r \in SampleResults, ttl \in TTLArgs : Set(h, r, ttl)
    \/ \E h \in Hashes : Delete(h)
    \/ Clear
    \/ PruneCall
    \/ \E data \in Payloads : ImportCall(data)
    \/ Tick

CacheSpec == CacheInit /\ [][CacheNext]_vars

-----------------------------------------------------------------------------
(* Claims about the result cache, checked under CacheSpec *)

\* C6: the number of entries held by the cache never exceeds the capacity
\* ceiling, after any sequence of set, get, prune, delete, clear and import.
C6_SizeWithinCapacity == Len(cache) <= maxEntries

\* C7: after set(k, v) the entry of k holds v, the time of the call and the
\* TTL; no other call changes an entry it leaves in the cache; and get(k)
\* returns the entry's results at every time before its TTL has elapsed and
\* absent (removing the entry) at every time strictly after.
C7_SetGetRoundTrip ==
    [][/\ lastOp'.op = "set" =>
            /\ Has(cache', lastOp'.hash)
            /\ EntryOf(cache', lastOp'.hash) =
                 [hash |-> lastOp'.hash, results |-> lastOp'.results, timestamp |-> now,
                  ttl |-> IF lastOp'.ttl = 0 THEN defaultTTL ELSE lastOp'.ttl]
       /\ \A h \in Keys(cache) \cap Keys(cache') :
            (lastOp'.op \notin {"set", "import"} \/ (lastOp'.op = "set" /\ lastOp'.hash # h))
                => EntryOf(cache', h) = EntryOf(cache, h)
       /\ (lastOp'.op = "get" /\ Has(cache, lastOp'.hash)) =>
            LET e == EntryOf(cache, lastOp'.hash) IN
            /\ now - e.timestamp < e.ttl =>
                 (lastOp'.found = "hit" /\ lastOp'.results = e.results /\ cache' = cache)
            /\ now - e.timestamp > e.ttl =>
                 (lastOp'.found # "hit" /\ lastOp'.results = <<>>
                    /\ ~Has(cache', lastOp'.hash))
      ]_vars

\* a get that found its entry expired
C7_Witness == lastOp.op = "get" /\ lastOp.found = "expired"

C30_ReplaceKeepsOthers ==
    [][(lastOp'.op = "set" /\ Has(cache, lastOp'.hash)) =>
          \A i \in 1..Len(cache) :
              (cache[i].hash # lastOp'.hash /\ ~Expired(cache[i], now))
                  => Has(cache', cache[i].hash)
      ]_vars

-----------------------------------------------------------------------------
(* Persistence of the cache: export() and import(data) of src/src/cache.ts *)

\* export(): the text is kept as the snapshot
ExportCall ==
    /\ applied' = [fn |-> "export", data |-> Export(cache), at |-> now]
    /\ lastOp' = Op("export", NoHash, NoRet, 0, 0)
    /\ UNCHANGED <<cache, now, proxyFn, call, clientRequests, serverVars>>

\* new AnalysisCache().import(snapshot): the cache of the next process
RestoreCall ==
    /\ applied.fn = "export"
    /\ cache' = Import(<<>>, JSONParse(applied.data), now)
    /\ applied' = NothingApplied
    /\ lastOp' = Op("restore", NoHash, NoRet, 0, 0)
    /\ UNCHANGED <<now, proxyFn, call, clientRequests, serverVars>>

\* import(data) of a payload some other party wrote
ImportPayload(data) ==
    /\ cache' = Import(cache, data, now)
    /\ lastOp' = Op("import", NoHash, NoRet, 0, 0)
    /\ UNCHANGED <<now, llmVars, serverVars>>

\* A process fills its cache and exports it when it stops; the process that
\* follows imports the snapshot into its own cache and goes on from there
Running == applied.fn # "export"

RunningSet(h, results, ttl) == Running /\ Set(h, results, ttl)

StopAndExport == Running /\ ExportCall

PersistNext ==
    \/ \E h \in PayloadHashes, r \in SampleResults, ttl \in TTLArgs : RunningSet(h, r, ttl)
    \/ Tick
    \/ StopAndExport
    \/ RestoreCall

PersistSpec == CacheInit /\ [][PersistNext]_vars

\* A process that sets entries and imports payloads
ImportNext ==
    \/ \E h \in PayloadHashes, r \in SampleResults, ttl \in TTLArgs : Set(h, r, ttl)
    \/ Tick
    \/ \E data \in MixedPayloads : ImportPayload(data)

ImportSpec == CacheInit /\ [][ImportNext]_vars

-----------------------------------------------------------------------------
(* Claims about persistence: C15 and C16 are checked under ImportSpec, C17 *)
(* and C18 under PersistSpec                                               *)

\* a record that has the fields of an entry
WellFormed(record) == record.hash \in Hashes

\* C15: import(data) never throws, and after it the cache holds no entry
\* taken from a malformed payload and no entry the payload held that had
\* expired by the clock of the importer.
C15_ImportDiscardsMalformed ==
    [][\A data \in MixedPayloads : ImportPayload(data) =>
          \A i \in 1..Len(cache') :
              (/\ \E j \in 1..Len(data.entries) : data.entries[j] = cache'[i]
               /\ \A k \in 1..Len(cache) : cache[k] # cache'[i]) =>
                  (WellFormed(cache'[i]) /\ ~Expired(cache'[i], now))]_vars

\* the record at position j is the last one of the payload for its hash
LastForHash(entries, j) ==
    \A k \in (j + 1)..Len(entries) :
        ~(WellFormed(entries[k]) /\ entries[k].hash = entries[j].hash)

\* C16: of a payload that mixes well-formed and corrupt records, every
\* well-formed record that has not expired is in the cache after the import,
\* wherever the corrupt records are in the list.
C16_WellFormedRecordsKept ==
    [][\A data \in MixedPayloads : ImportPayload(data) =>
          \A j \in 1..Len(data.entries) :
              (/\ WellFormed(data.entries[j])
               /\ ~Expired(data.entries[j], now)
               /\ LastForHash(data.entries, j)) =>
                  (/\ Has(cache', data.entries[j].hash)
                   /\ EntryOf(cache', data.entries[j].hash) = data.entries[j])]_vars

\* C17: the text export() returns holds no entry whose TTL had elapsed at
\* the time of the call.
C17_ExportOmitsExpired ==
    applied.fn = "export" =>
        \A i \in 1..Len(JSONParse(applied.data).entries) :
            ~Expired(JSONParse(applied.data).entries[i], applied.at)

\* the entries of the snapshot
Exported == JSONParse(applied.data).entries

\* C18: when a snapshot is imported into a fresh cache before any TTL of it
\* has elapsed, get returns for every exported digest the findings that were
\* exported, and the entry has the timestamp and the TTL that were exported.
C18_ExportImportRoundTrip ==
    [][(/\ RestoreCall
        /\ \A i \in 1..Len(Exported) : ~Expired(Exported[i], now)) =>
           \A i \in 1..Len(Exported) :
               /\ CacheGetResult(cache', Exported[i].hash, now) =
                    [found |-> "hit", results |-> Exported[i].results]
               /\ EntryOf(cache', Exported[i].hash).timestamp = Exported[i].timestamp
               /\ EntryOf(cache', Exported[i].hash).ttl = Exported[i].ttl]_vars

\* a fresh cache was given two entries by the import, set at different times
\* before it, one of them with findings
C18_Witness ==
    /\ lastOp.op = "restore"
    /\ Len(cache) = 2
    /\ \A i \in 1..2 : ~Expired(cache[i], now)
    /\ cache[1].timestamp < cache[2].timestamp
    /\ cache[2].timestamp < now
    /\ cache[1].results # <<>>

-----------------------------------------------------------------------------
(* Semantic analysis orchestrator: src/src/analyzers/llm.ts *)

SubAnalyses == {"combined", "composed"}

\* JSON values a provider may answer with
EmptyObject == [contradictions |-> 0, conflicts |-> 0]
OneContradiction == [contradictions |-> 1, conflicts |-> 0]
TwoContradictions == [contradictions |-> 2, conflicts |-> 0]
OneConflict == [contradictions |-> 0, conflicts |-> 1]

JSONValues == {EmptyObject, OneContradiction, TwoContradictions, OneConflict}

\* Response texts are token sequences: a code fence, the json tag that may
\* follow an opening fence, a JSON value, or words that are no JSON
Tok(kind, v) == [kind |-> kind, value |-> v]

Fence == Tok("fence", EmptyObject)
JsonTag == Tok("tag", EmptyObject)
Words == Tok("words", EmptyObject)

\* a JSON value bare, and the same inside a code fence with the json tag
ResponseTexts(v) == {<<Tok("object", v)>>, <<Fence, JsonTag, Tok("object", v), Fence>>}

NotJSON == <<Words>>

\* What the proxy function hands back: a text, a text with the error field
\* set (the client sets it too when its 30 s timer cancelled the request), or
\* a rejected promise
ProxyResponses ==
    {[kind |-> "text", text |-> t] : t \in UNION {ResponseTexts(v) : v \in JSONValues} \cup {NotJSON}}
    \cup {[kind |-> k, text |-> <<Tok("object", EmptyObject)>>] :
            k \in {"error", "timeout", "reject"}}

\* extractJSON: the text between the first pair of fences (an opening json tag
\* dropped), else the whole text; then JSON.parse
FenceInner(text) ==
    IF \E i \in 1..Len(text), j \in 1..Len(text) : i < j /\ text[i] = Fence /\ text[j] = Fence
    THEN LET i == CHOOSE i \in 1..Len(text) :
                    /\ text[i] = Fence
                    /\ \A k \in 1..(i - 1) : text[k] # Fence
             j == CHOOSE j \in (i + 1)..Len(text) :
                    /\ text[j] = Fence
                    /\ \A k \in (i + 1)..(j - 1) : text[k] # Fence
             inner == SubSeq(text, i + 1, j - 1)
         IN IF inner # <<>> /\ Head(inner) = JsonTag THEN Tail(inner) ELSE inner
    ELSE text

extractJSON(text) ==
    LET inner == FenceInner(text) IN
    IF Len(inner) = 1 /\ inner[1].kind = "object"
    THEN [ok |-> TRUE, value |-> inner[1].value]
    ELSE [ok |-> FALSE, value |-> EmptyObject]

\* processContradictions .. processCoverage, and the conflicts loop of
\* analyzeCompositionConflicts
ProcessParsed(s, v) ==
    IF s = "combined"
    THEN [i \in 1..v.contradictions |-> Finding("contradiction", "error", "-", "-")]
    ELSE [i \in 1..v.conflicts |-> Finding("composition-conflict", "warning", "-", "-")]

\* a sub-analysis that reports a response it cannot parse
SettleReporting(s, r) ==
    IF r.kind # "text"
    THEN [state |-> "rejected", value |-> <<>>, cause |-> r.kind]
    ELSE IF extractJSON(r.text).ok
         THEN [state |-> "fulfilled", value |-> ProcessParsed(s, extractJSON(r.text).value),
               cause |-> "-"]
         ELSE [state |-> "fulfilled",
               value |-> <<Finding("llm-error", "info", "-", "-")>>, cause |-> "malformed"]

\* callLLM, then the try/catch around extractJSON: how a sub-analysis settles
Settle(s, r) ==
    IF r.kind # "text"
    THEN [state |-> "rejected", value |-> <<>>, cause |-> r.kind]
    ELSE IF extractJSON(r.text).ok
         THEN [state |-> "fulfilled", value |-> ProcessParsed(s, extractJSON(r.text).value),
               cause |-> "-"]
         ELSE [state |-> "fulfilled", value |-> <<>>, cause |-> "malformed"]

Pending == [state |-> "pending", value |-> <<>>, cause |-> "-"]

NoRequest == [state |-> "fulfilled", value |-> <<>>, cause |-> "none"]

\* the finding with the severity info
DisabledInfo == Finding("llm-disabled", "info", "-", "-")

DisabledHint == Finding("llm-disabled", "hint", "-", "-")

ErrorFinding == Finding("llm-error", "info", "-", "-")

\* a join that gives up on the first rejection, as Promise.all would
JoinResultsAll(sub) ==
    IF \E s \in SubAnalyses : sub[s].state = "rejected"
    THEN <<ErrorFinding>>
    ELSE sub["combined"].value \o sub["composed"].value

\* the loop over the outcome of Promise.allSettled: the fulfilled values, in order
JoinResults(sub) ==
    (IF sub["combined"].state = "fulfilled" THEN sub["combined"].value ELSE <<>>)
    \o (IF sub["composed"].state = "fulfilled" THEN sub["composed"].value ELSE <<>>)

\* a join whose rejection is not caught
JoinOutcomeUncaught(sub) ==
    IF \E s \in SubAnalyses : sub[s].state = "rejected" THEN "raised" ELSE "returned"

\* Promise.allSettled never rejects, so the catch block never runs
JoinOutcome(sub) == "returned"

Returned(results, sub, requests) ==
    [pc |-> "returned", results |-> results, sub |-> sub, requests |-> requests,
     order |-> <<>>]

\* setProxyFn
SetProxyFn ==
    /\ ~proxyFn
    /\ proxyFn' = TRUE
    /\ UNCHANGED <<call, clientVars, cacheVars, serverVars>>

\* analyze(doc), up to its first await
Analyze(trivial, links) ==
    /\ call.pc = "idle"
    /\ call' =
         IF ~proxyFn THEN Returned(<<DisabledHint>>, [s \in SubAnalyses |-> NoRequest], 0)
         ELSE IF trivial THEN Returned(<<>>, [s \in SubAnalyses |-> NoRequest], 0)
         ELSE [pc |-> "joining", results |-> <<>>,
               sub |-> [s \in SubAnalyses |->
                          IF s = "composed" /\ ~links THEN NoRequest ELSE Pending],
               requests |-> IF links THEN 2 ELSE 1,
               order |-> <<>>]
    /\ UNCHANGED <<proxyFn, clientVars, cacheVars, serverVars>>

\* the proxy function settles one outstanding request
Respond(s, r) ==
    /\ call.pc = "joining"
    /\ call.sub[s].state = "pending"
    /\ call' = [call EXCEPT !.sub[s] = Settle(s, r), !.order = Append(@, s)]
    /\ UNCHANGED <<proxyFn, clientVars, cacheVars, serverVars>>

\* the fulfilled values in the order in which the requests settled
RECURSIVE InCompletionOrder(_, _)
InCompletionOrder(sub, order) ==
    IF order = <<>> THEN <<>>
    ELSE (IF sub[Head(order)].state = "fulfilled" THEN sub[Head(order)].value ELSE <<>>)
         \o InCompletionOrder(sub, Tail(order))

\* a join that collects the findings as the requests complete
JoinByCompletion ==
    /\ call.pc = "joining"
    /\ \A s \in SubAnalyses : call.sub[s].state # "pending"
    /\ call' = [call EXCEPT !.pc = JoinOutcome(call.sub),
                            !.results = InCompletionOrder(call.sub, call.order)]
    /\ UNCHANGED <<proxyFn, clientVars, cacheVars, serverVars>>

\* both sub-analyses have settled: analyze collects and returns
Join ==
    /\ call.pc = "joining"
    /\ \A s \in SubAnalyses : call.sub[s].state # "pending"
    /\ call' = [call EXCEPT !.pc = JoinOutcome(call.sub), !.results = JoinResults(call.sub)]
    /\ UNCHANGED <<proxyFn, clientVars, cacheVars, serverVars>>

\* the caller takes the result
Finish ==
    /\ call.pc \in {"returned", "raised"}
    /\ call' = [pc |-> "idle"]
    /\ UNCHANGED <<proxyFn, clientVars, cacheVars, serverVars>>

LlmNext ==
    \/ SetProxyFn
    \/ \E trivial \in BOOLEAN, links \in BOOLEAN : Analyze(trivial, links)
    \/ \E s \in SubAnalyses, r \in ProxyResponses : Respond(s, r)
    \/ Join
    \/ Finish

LlmSpec == Init /\ [][LlmNext]_vars

-----------------------------------------------------------------------------
(* Claims about the orchestrator, checked under LlmSpec *)

Failed(s) == call.sub[s].state = "rejected"

Succeeded(s) == call.sub[s].state = "fulfilled" /\ call.sub[s].cause # "none"

\* C9: when one of the two semantic requests fails, rejects or times out,
\* analyze returns only after both have settled, and what it returns is all
\* the findings of the request that succeeded.
C9_PartialFailureKeepsFindings ==
    (call.pc \in {"returned", "raised"} /\ call.requests = 2) =>
        /\ \A s \in SubAnalyses : call.sub[s].state # "pending"
        /\ \A s \in SubAnalyses, o \in SubAnalyses :
             (Failed(s) /\ Succeeded(o)) =>
                 (call.pc = "returned" /\ call.results = call.sub[o].value)

\* analyze has returned the findings of the one request that succeeded
C9_Witness ==
    /\ call.pc = "returned"
    /\ Failed("combined") /\ call.sub["combined"].cause = "timeout"
    /\ Succeeded("composed") /\ call.sub["composed"].value # <<>>
    /\ call.results = call.sub["composed"].value

\* C10: when every semantic request made fails (error field, rejection or
\* timeout), analyze returns normally, with at most one finding, and any
\* finding it returns has informational severity.
C10_TotalFailureReturns ==
    (/\ call.pc \in {"returned", "raised"}
     /\ call.requests > 0
     /\ \A s \in SubAnalyses : call.sub[s].cause # "none" => Failed(s)) =>
        /\ call.pc = "returned"
        /\ Len(call.results) <= 1
        /\ \A i \in 1..Len(call.results) : call.results[i].severity = "info"

\* analyze has returned after both of its requests failed
C10_Witness ==
    /\ call.pc = "returned"
    /\ call.requests = 2
    /\ Failed("combined") /\ Failed("composed")
    /\ call.sub["combined"].cause = "error" /\ call.sub["composed"].cause = "reject"

\* C21: the list analyze returns does not depend on which of the two requests
\* completed first: it is the findings of the combined request followed by
\* those of the composed request, none dropped or replaced.
C21_OrderIndependentMerge ==
    (call.pc \in {"returned", "raised"} /\ call.requests = 2
        /\ \A s \in SubAnalyses : Succeeded(s)) =>
        /\ call.pc = "returned"
        /\ call.results = call.sub["combined"].value \o call.sub["composed"].value

\* the composed request completed first, and both had findings
C21_Witness ==
    /\ call.pc = "returned"
    /\ call.order = <<"composed", "combined">>
    /\ \A s \in SubAnalyses : Succeeded(s) /\ call.sub[s].value # <<>>
    /\ call.results = call.sub["combined"].value \o call.sub["composed"].value

\* C19 as stated: with no proxy function configured, analyze returns exactly
\* one finding, of informational severity, saying that semantic analysis is
\* unavailable, and makes no request.
C19_InformationalWhenUnavailable ==
    (call.pc \in {"returned", "raised"} /\ ~proxyFn) =>
        /\ call.pc = "returned"
        /\ Len(call.results) = 1
        /\ call.results[1].code = "llm-disabled"
        /\ call.results[1].severity = "info"
        /\ call.requests = 0

\* C19 amended: with no proxy function configured, analyze returns exactly
\* one finding, of severity hint, saying that semantic analysis is
\* unavailable, and makes no request.
C19_HintWhenUnavailable ==
    (call.pc \in {"returned", "raised"} /\ ~proxyFn) =>
        /\ call.pc = "returned"
        /\ Len(call.results) = 1
        /\ call.results[1].code = "llm-disabled"
        /\ call.results[1].severity = "hint"
        /\ call.requests = 0
        /\ \A s \in SubAnalyses : call.sub[s] = NoRequest

\* analyze has returned without a proxy function
C19_Witness ==
    /\ call.pc = "returned"
    /\ ~proxyFn
    /\ call.results = <<DisabledHint>>

Malformed(s) == call.sub[s].cause = "malformed"

\* what a sub-analysis whose response was decoded adds to the findings
Decoded(s) ==
    IF call.sub[s].state = "fulfilled" /\ ~Malformed(s) THEN call.sub[s].value ELSE <<>>

\* C20: a response that cannot be decoded as JSON makes its sub-analysis
\* contribute no finding, and analyze returns to its caller without raising.
C20_MalformedContributesNothing ==
    (call.pc \in {"returned", "raised"} /\ \E s \in SubAnalyses : Malformed(s)) =>
        /\ call.pc = "returned"
        /\ \A s \in SubAnalyses : Malformed(s) => call.sub[s].value = <<>>
        /\ call.results = Decoded("combined") \o Decoded("composed")

\* analyze has returned the findings of the composed request alone, the
\* combined response being no JSON
C20_Witness ==
    /\ call.pc = "returned"
    /\ Malformed("combined")
    /\ Succeeded("composed") /\ ~Malformed("composed")
    /\ call.sub["composed"].value # <<>>
    /\ call.results = call.sub["composed"].value

-----------------------------------------------------------------------------
(* The client serving the requests of the orchestrator:                     *)
(* src/client/src/extension.ts, handleLLMProxyRequest                       *)

\* texts a provider may stream back
StreamedTexts == ResponseTexts(OneContradiction) \cup ResponseTexts(OneConflict) \cup {NotJSON}

\* { text: '{}', error: ... }
ErrorReply(kind) == [kind |-> kind, text |-> <<Tok("object", EmptyObject)>>]

\* the proxy function forwards the request of sub-analysis s to the client,
\* whose handler starts with await selectModel()
ClientReceive(s) ==
    /\ call.pc = "joining"
    /\ call.sub[s].state = "pending"
    /\ clientRequests[s].phase = "none"
    /\ clientRequests' = [clientRequests EXCEPT ![s].phase = "selecting"]
    /\ UNCHANGED <<proxyFn, call, applied, cacheVars, serverVars>>

\* selectModel returns: without a model the handler answers with an error,
\* with one it arms the 30 s timer and awaits model.sendRequest
SelectModel(s, found) ==
    /\ clientRequests[s].phase = "selecting"
    /\ clientRequests' =
         [clientRequests EXCEPT
            ![s] = IF found
                   THEN [phase |-> "sending", timer |-> "armed", reply |-> NoReply]
                   ELSE [phase |-> "replying", timer |-> "unset", reply |-> ErrorReply("error")]]
    /\ UNCHANGED <<proxyFn, call, applied, cacheVars, serverVars>>

\* the provider accepts the request: model.sendRequest resolves and the
\* handler awaits the parts of the response
ProviderAnswers(s) ==
    /\ clientRequests[s].phase = "sending"
    /\ clientRequests[s].timer = "armed"
    /\ clientRequests' = [clientRequests EXCEPT ![s].phase = "streaming"]
    /\ UNCHANGED <<proxyFn, call, applied, cacheVars, serverVars>>

\* the response stream ends: clearTimeout, return { text }
ProviderStreams(s, text) ==
    /\ clientRequests[s].phase = "streaming"
    /\ clientRequests[s].timer = "armed"
    /\ clientRequests' =
         [clientRequests EXCEPT
            ![s] = [phase |-> "replying", timer |-> "cleared",
                    reply |-> [kind |-> "text", text |-> text]]]
    /\ UNCHANGED <<proxyFn, call, applied, cacheVars, serverVars>>

\* the provider fails by itself: the await throws and the catch block answers
\* with an error (the timer, not cleared on this path, later cancels a
\* disposed token source, to no effect)
ProviderFails(s) ==
    /\ clientRequests[s].phase \in {"sending", "streaming"}
    /\ clientRequests[s].timer = "armed"
    /\ clientRequests' =
         [clientRequests EXCEPT
            ![s] = [phase |-> "replying", timer |-> "unset", reply |-> ErrorReply("error")]]
    /\ UNCHANGED <<proxyFn, call, applied, cacheVars, serverVars>>

\* a timer that is never set
TimerNeverFires(s) ==
    /\ FALSE
    /\ UNCHANGED vars

\* setTimeout(() => tokenSource.cancel(), 30000) fires while the handler
\* still awaits the provider
TimerFires(s) ==
    /\ clientRequests[s].phase \in {"sending", "streaming"}
    /\ clientRequests[s].timer = "armed"
    /\ clientRequests' = [clientRequests EXCEPT ![s].timer = "fired"]
    /\ UNCHANGED <<proxyFn, call, applied, cacheVars, serverVars>>

\* the cancelled token makes the pending await throw, and the catch block
\* answers with an error
CancellationRejects(s) ==
    /\ clientRequests[s].phase \in {"sending", "streaming"}
    /\ clientRequests[s].timer = "fired"
    /\ clientRequests' =
         [clientRequests EXCEPT
            ![s] = [phase |-> "replying", timer |-> "fired", reply |-> ErrorReply("timeout")]]
    /\ UNCHANGED <<proxyFn, call, applied, cacheVars, serverVars>>

\* the handler's answer reaches the proxy function, and callLLM resumes
ClientReturn(s) ==
    /\ clientRequests[s].phase = "replying"
    /\ call' = [call EXCEPT !.sub[s] = Settle(s, clientRequests[s].reply),
                            !.order = Append(@, s)]
    /\ clientRequests' = [clientRequests EXCEPT ![s] = NoClientRequest]
    /\ UNCHANGED <<proxyFn, applied, cacheVars, serverVars>>

\* the orchestrator with its requests served by the client; the provider
\* may answer, fail or stay silent
ProxyNext ==
    \/ SetProxyFn
    \/ \E trivial \in BOOLEAN, links \in BOOLEAN : Analyze(trivial, links)
    \/ \E s \in SubAnalyses : ClientReceive(s)
    \/ \E s \in SubAnalyses, found \in BOOLEAN : SelectModel(s, found)
    \/ \E s \in SubAnalyses : ProviderAnswers(s)
    \/ \E s \in SubAnalyses, text \in StreamedTexts : ProviderStreams(s, text)
    \/ \E s \in SubAnalyses : ProviderFails(s)
    \/ \E s \in SubAnalyses : TimerFires(s)
    \/ \E s \in SubAnalyses : CancellationRejects(s)
    \/ \E s \in SubAnalyses : ClientReturn(s)
    \/ Join
    \/ Finish

\* what runs by itself once enabled: message delivery, selectModel, the
\* timer, the rejection of a cancelled await, and the join. Nothing obliges
\* the provider to answer or to fail.
ProxyFairness ==
    /\ \A s \in SubAnalyses : WF_vars(ClientReceive(s))
    /\ \A s \in SubAnalyses : WF_vars(\E found \in BOOLEAN : SelectModel(s, found))
    /\ \A s \in SubAnalyses : WF_vars(TimerFires(s))
    /\ \A s \in SubAnalyses : WF_vars(CancellationRejects(s))
    /\ \A s \in SubAnalyses : WF_vars(ClientReturn(s))
    /\ WF_vars(Join)

ProxySpec == Init /\ [][ProxyNext]_vars /\ ProxyFairness

-----------------------------------------------------------------------------
(* Claims about the requests, checked under ProxySpec *)

\* the sub-analysis s was rejected because the timer cancelled its request
TimedOut(s) ==
    call.pc # "idle" /\ call.sub[s].state = "rejected" /\ call.sub[s].cause = "timeout"

-----------------------------------------------------------------------------
(* The composed text: src/src/analyzers/llm.ts, buildComposedText *)

\* MAX_COMPOSED_SIZE, scaled down
MAX_COMPOSED_SIZE == 10

\* Texts are sequences of characters. D stands for the name
\* DOCUMENT_TO_ANALYZE, so that the two delimiters read <D> and </D>
Chars == {"<", "/", "D", ">"}

delimiter == <<"<", "D", ">">>

closingDelimiter == <<"<", "/", "D", ">">>

LinkedTexts == UNION {[1..n -> Chars] : n \in 0..MaxLinkedLen}

\* lengths of the document text: empty, near the size limit, at the limit
DocLengths == {0, MAX_COMPOSED_SIZE - 3, MAX_COMPOSED_SIZE}

\* the begin and end lines put around a linked text, scaled down like the
\* size limit (in the source, 31 characters and twice the target)
WrapperLength == 2

StartsWith(text, pattern) ==
    Len(text) >= Len(pattern) /\ SubSeq(text, 1, Len(pattern)) = pattern

Contains(text, pattern) ==
    \E i \in 1..Len(text) : StartsWith(SubSeq(text, i, Len(text)), pattern)

\* text.split(pattern).join(''): one pass from the left that drops each
\* occurrence it meets and goes on behind it
RECURSIVE SplitJoin(_, _)
SplitJoin(text, pattern) ==
    IF text = <<>> THEN <<>>
    ELSE IF StartsWith(text, pattern)
         THEN SplitJoin(SubSeq(text, Len(pattern) + 1, Len(text)), pattern)
         ELSE <<Head(text)>> \o SplitJoin(Tail(text), pattern)

\* linkedText.slice(0, remaining)
Slice(text, remaining) == SubSeq(text, 1, IF Len(text) > remaining THEN remaining ELSE Len(text))

\* the body of the loop of buildComposedText for one link: what of the
\* linked file goes between the begin and end lines, for a document text of
\* docLen characters
IncludedText(docLen, linkedText) ==
    IF docLen >= MAX_COMPOSED_SIZE
    THEN [included |-> FALSE, text |-> <<>>]
    ELSE [included |-> TRUE,
          text |-> Slice(SplitJoin(SplitJoin(linkedText, delimiter), closingDelimiter),
                         MAX_COMPOSED_SIZE - docLen)]

\* the length of parts.join('\n'): the document text and, for an included
\* link, the joining newline, the begin and end lines and the text between
ComposedLength(docLen, linkedText) ==
    docLen + (IF IncludedText(docLen, linkedText).included
              THEN 1 + WrapperLength + Len(IncludedText(docLen, linkedText).text)
              ELSE 0)

\* a document text of some length with a link to a file of some content
ComposeInit ==
    /\ BaseInit
    /\ applied \in {[fn |-> "input", docLen |-> n, linkedText |-> t, result |-> <<>>,
                      size |-> 0] :
                       n \in DocLengths, t \in LinkedTexts}

buildComposedText ==
    /\ applied.fn = "input"
    /\ applied' = [applied EXCEPT
                     !.fn = "buildComposedText",
                     !.result = IncludedText(applied.docLen, applied.linkedText),
                     !.size = ComposedLength(applied.docLen, applied.linkedText)]
    /\ UNCHANGED <<proxyFn, call, clientRequests, cacheVars, serverVars>>

ComposeNext == buildComposedText

ComposeSpec == ComposeInit /\ [][ComposeNext]_vars

-----------------------------------------------------------------------------
(* Claims about the composed text, checked under ComposeSpec *)

\* C12: whatever a linked file holds, the text of it that buildComposedText
\* includes contains neither the opening nor the closing delimiter.
C12_NoDelimiterIncluded ==
    applied.fn = "buildComposedText" =>
        /\ ~Contains(applied.result.text, delimiter)
        /\ ~Contains(applied.result.text, closingDelimiter)

\* C22: the composed text is never longer than the size limit: the linked
\* text is cut once the limit is reached and no further link is included.
C22_ComposedWithinLimit ==
    applied.fn = "buildComposedText" => applied.size <= MAX_COMPOSED_SIZE

-----------------------------------------------------------------------------
(* Link resolution: src/src/parsing.ts, resolveLinkPath *)

\* Paths are POSIX strings, written as sequences of characters; w and x are
\* the letters file names are made of
PathChars == {"/", ".", "w", "x"}

PathStrings == UNION {[1..n -> PathChars] : n \in 0..MaxTargetLen}

\* a target is a path, or the text file:// followed by one
Targets == {[url |-> u, text |-> t] : u \in BOOLEAN, t \in PathStrings}

\* an optional directory argument
Given(dir) == [given |-> TRUE, path |-> dir]

NotGiven == [given |-> FALSE, path |-> <<>>]

\* the directory of the document, and the workspace root
DocumentDirs == {NotGiven, Given(<<"/", "w", "/", "x">>), Given(<<"/", "x">>)}

WorkspaceRoots == {NotGiven, Given(<<"/", "w">>), Given(<<"/">>)}

\* a path string cut at its separators
RECURSIVE SplitPath(_, _)
SplitPath(str, segment) ==
    IF str = <<>> THEN <<segment>>
    ELSE IF Head(str) = "/" THEN <<segment>> \o SplitPath(Tail(str), <<>>)
         ELSE SplitPath(Tail(str), Append(segment, Head(str)))

\* normalization: empty and . segments dropped, .. removes the segment
\* before it, never going above the root
RECURSIVE Normalized(_, _)
Normalized(segments, stack) ==
    IF segments = <<>> THEN stack
    ELSE LET seg == Head(segments) IN
         IF seg = <<>> \/ seg = <<".">> THEN Normalized(Tail(segments), stack)
         ELSE IF seg = <<".", ".">>
              THEN Normalized(Tail(segments),
                              IF stack = <<>> THEN stack ELSE SubSeq(stack, 1, Len(stack) - 1))
              ELSE Normalized(Tail(segments), Append(stack, seg))

\* the absolute path string of a list of segments
RECURSIVE JoinPath(_)
JoinPath(segments) ==
    IF segments = <<>> THEN <<>>
    ELSE <<"/">> \o Head(segments) \o JoinPath(Tail(segments))

AbsolutePath(segments) == IF segments = <<>> THEN <<"/">> ELSE JoinPath(segments)

\* path.isAbsolute
isAbsolute(str) == str # <<>> /\ Head(str) = "/"

\* path.resolve(from, to), from being absolute
PathResolve(from, to) ==
    IF isAbsolute(to)
    THEN AbsolutePath(Normalized(SplitPath(to, <<>>), <<>>))
    ELSE AbsolutePath(Normalized(SplitPath(from, <<>>) \o SplitPath(to, <<>>), <<>>))

\* fileURLToPath of file:// followed by text: a URL with a host is refused,
\* the path of one without is taken with its dot segments resolved
fileURLToPath(text) ==
    IF isAbsolute(text) /\ ~(Len(text) > 1 /\ text[2] = "/")
    THEN [ok |-> TRUE, path |-> PathResolve(<<"/">>, text)]
    ELSE [ok |-> FALSE, path |-> <<>>]

\* a containment test that compares with the directory name alone
isWithinDirectoryNoSep(filePath, directory) ==
    StartsWith(PathResolve(<<"/">>, filePath), PathResolve(<<"/">>, directory))

isWithinDirectory(filePath, directory) ==
    LET normalizedFile == PathResolve(<<"/">>, filePath)
        normalizedDir == PathResolve(<<"/">>, directory)
    IN normalizedFile = normalizedDir \/ StartsWith(normalizedFile, normalizedDir \o <<"/">>)

Undefined == [found |-> FALSE, path |-> <<>>]

resolveLinkPath(target, documentDir, workspaceRoot) ==
    IF ~documentDir.given THEN Undefined
    ELSE IF target.url /\ ~fileURLToPath(target.text).ok THEN Undefined
    ELSE LET resolved == IF target.url THEN fileURLToPath(target.text).path
                         ELSE IF isAbsolute(target.text) THEN target.text
                         ELSE PathResolve(documentDir.path, target.text)
         IN IF workspaceRoot.given
            THEN IF isWithinDirectory(resolved, workspaceRoot.path)
                 THEN [found |-> TRUE, path |-> resolved]
                 ELSE Undefined
            ELSE IF ~target.url /\ isAbsolute(target.text)
                 THEN Undefined
                 ELSE [found |-> TRUE, path |-> resolved]

\* a link target in a document of some directory, with or without a root
LinkInit ==
    /\ BaseInit
    /\ applied \in {[fn |-> "input", target |-> t, documentDir |-> d, workspaceRoot |-> r,
                      result |-> Undefined, exists |-> FALSE, findings |-> <<>>] :
                       t \in Targets, d \in DocumentDirs, r \in WorkspaceRoots}

ResolveLink ==
    /\ applied.fn = "input"
    /\ applied' = [applied EXCEPT
                     !.fn = "resolveLinkPath",
                     !.result = resolveLinkPath(applied.target, applied.documentDir,
                                                applied.workspaceRoot)]
    /\ UNCHANGED <<proxyFn, call, clientRequests, cacheVars, serverVars>>

\* a loop that does not probe the file of a resolved link
analyzeCompositionLinksUnprobed(link, exists) ==
    IF ~link.found
    THEN <<Finding("composition-unresolved", "warning", "-", "-")>>
    ELSE <<>>

\* analyzeCompositionLinks for a document with one link: exists is what
\* fs.accessSync finds at the resolved path
analyzeCompositionLinks(link, exists) ==
    IF ~link.found
    THEN <<Finding("composition-unresolved", "warning", "-", "-")>>
    ELSE IF ~exists
         THEN <<Finding("composition-missing", "error", "-", "-")>>
         ELSE <<>>

\* the static analysis of the parsed document
AnalyzeLink(exists) ==
    /\ applied.fn = "resolveLinkPath"
    /\ applied' = [applied EXCEPT
                     !.fn = "analyzeCompositionLinks",
                     !.exists = exists,
                     !.findings = analyzeCompositionLinks(applied.result, exists)]
    /\ UNCHANGED <<proxyFn, call, clientRequests, cacheVars, serverVars>>

LinkNext ==
    \/ ResolveLink
    \/ \E exists \in BOOLEAN : AnalyzeLink(exists)

LinkSpec == LinkInit /\ [][LinkNext]_vars

-----------------------------------------------------------------------------
(* Claims about link resolution, checked under LinkSpec *)

\* the segments of the place a path string denotes
Place(str) == Normalized(SplitPath(str, <<>>), <<>>)

\* the place of path is the place of root or lies below it
Inside(path, root) ==
    /\ Len(Place(path)) >= Len(Place(root))
    /\ SubSeq(Place(path), 1, Len(Place(root))) = Place(root)

\* C13: with a workspace root, resolveLinkPath returns undefined or a path
\* inside the root, for every target, traversing and absolute ones included.
C13_ResolvedInsideRoot ==
    (applied.fn = "resolveLinkPath" /\ applied.workspaceRoot.given) =>
        (applied.result.found => Inside(applied.result.path, applied.workspaceRoot.path))

\* a target that climbs with .. and comes out inside the root was resolved
C13_Witness ==
    /\ applied.fn = "resolveLinkPath"
    /\ applied.workspaceRoot = Given(<<"/", "w">>)
    /\ applied.documentDir = Given(<<"/", "w", "/", "x">>)
    /\ applied.target = [url |-> FALSE, text |-> <<".", ".", "/", "w">>]
    /\ applied.result = [found |-> TRUE, path |-> <<"/", "w", "/", "w">>]

\* C14: without a workspace root, an absolute target, written as a path or
\* as a file URL, resolves to undefined; only relative targets yield a path.
C14_AbsoluteDeniedWithoutRoot ==
    (applied.fn = "resolveLinkPath" /\ ~applied.workspaceRoot.given) =>
        (applied.result.found => (~applied.target.url /\ ~isAbsolute(applied.target.text)))

\* a target that names a file in the directory of the document
Sibling(target) ==
    /\ ~target.url
    /\ target.text # <<>>
    /\ \A i \in 1..Len(target.text) : target.text[i] # "/"
    /\ \E i \in 1..Len(target.text) : target.text[i] # "."

\* the link of a document in a directory to a sibling file that does not
\* exist was analysed
MissingSibling ==
    /\ applied.fn = "analyzeCompositionLinks"
    /\ applied.documentDir.given
    /\ Sibling(applied.target)
    /\ ~applied.exists

SiblingInsideRoot ==
    /\ applied.workspaceRoot.given
    /\ Inside(PathResolve(applied.documentDir.path, applied.target.text),
              applied.workspaceRoot.path)

RootIsTop == applied.workspaceRoot.given /\ Place(applied.workspaceRoot.path) = <<>>

-----------------------------------------------------------------------------
(* The metadata header: src/src/parsing.ts, parseFrontmatter *)

\* Lines of a document: the delimiter, the delimiter with blanks around it,
\* two mapping entries, a list item, a line that is no YAML, plain text
HeaderLineKinds == {"---", " --- ", "name: a", "tools: b", "- item", ": invalid", "text"}

HeaderTexts == UNION {[1..n -> HeaderLineKinds] : n \in 0..MaxHeaderLines}

\* line.trim() === '---'
IsDelimiter(line) == line \in {"---", " --- "}

\* parseYAML of the lines of a block: a mapping, another value, or an error
\* (a line that is no YAML, entries mixed with other lines, a key given twice)
parseYAML(block) ==
    LET kinds == {block[i] : i \in 1..Len(block)} IN
    IF block = <<>> THEN "null"
    ELSE IF kinds \subseteq {"name: a", "tools: b"}
         THEN IF Cardinality(kinds) = Len(block) THEN "mapping" ELSE "throws"
    ELSE IF kinds = {"- item"} THEN "sequence"
    ELSE IF kinds = {"text"} THEN "scalar"
    ELSE "throws"

\* the index of the first line after line 0 that is a delimiter, 0 if none
ClosingLine(lines) ==
    IF \E i \in 2..Len(lines) : IsDelimiter(lines[i])
    THEN CHOOSE i \in 2..Len(lines) :
            IsDelimiter(lines[i]) /\ \A k \in 2..(i - 1) : ~IsDelimiter(lines[k])
    ELSE 0

NoHeader == [threw |-> FALSE, range |-> FALSE, endLine |-> 0, frontmatter |-> "absent"]

\* a parser that lets the error of parseYAML out
parseFrontmatterUncaught(lines) ==
    IF lines = <<>> \/ ~IsDelimiter(lines[1]) THEN NoHeader
    ELSE IF ClosingLine(lines) = 0 THEN NoHeader
    ELSE LET parsed == parseYAML(SubSeq(lines, 2, ClosingLine(lines) - 1)) IN
         [threw |-> parsed = "throws", range |-> parsed # "throws",
          endLine |-> IF parsed = "throws" THEN 0 ELSE ClosingLine(lines) - 1,
          frontmatter |-> IF parsed = "mapping" THEN "mapping" ELSE "absent"]

parseFrontmatter(lines) ==
    IF lines = <<>> \/ ~IsDelimiter(lines[1]) THEN NoHeader
    ELSE IF ClosingLine(lines) = 0 THEN NoHeader
    ELSE LET parsed == parseYAML(SubSeq(lines, 2, ClosingLine(lines) - 1)) IN
         [threw |-> FALSE, range |-> TRUE, endLine |-> ClosingLine(lines) - 1,
          frontmatter |-> IF parsed = "mapping" THEN "mapping" ELSE "absent"]

HeaderInit ==
    /\ BaseInit
    /\ applied \in {[fn |-> "input", lines |-> l, result |-> NoHeader] : l \in HeaderTexts}

ParseHeader ==
    /\ applied.fn = "input"
    /\ applied' = [applied EXCEPT !.fn = "parseFrontmatter",
                                  !.result = parseFrontmatter(applied.lines)]
    /\ UNCHANGED <<proxyFn, call, clientRequests, cacheVars, serverVars>>

HeaderNext == ParseHeader

HeaderSpec == HeaderInit /\ [][HeaderNext]_vars

-----------------------------------------------------------------------------
(* Claims about the metadata header, checked under HeaderSpec *)

\* line 0 is the delimiter and a delimiter follows
Delimited(lines) ==
    /\ lines # <<>>
    /\ IsDelimiter(lines[1])
    /\ \E i \in 2..Len(lines) : IsDelimiter(lines[i])

\* C26: parseFrontmatter never fails; it returns a range exactly when line 0
\* is the three-dash delimiter and a closing delimiter follows it, and a
\* header only when, besides, the lines between them decode to a mapping.
C26_HeaderParsingTotal ==
    applied.fn = "parseFrontmatter" =>
        /\ ~applied.result.threw
        /\ applied.result.range <=> Delimited(applied.lines)
        /\ applied.result.frontmatter # "absent" =>
              /\ Delimited(applied.lines)
              /\ parseYAML(SubSeq(applied.lines, 2, ClosingLine(applied.lines) - 1)) = "mapping"

\* a delimited block that is no YAML gave a range and no header
C26_Witness ==
    /\ applied.fn = "parseFrontmatter"
    /\ applied.lines = <<"---", ": invalid", "---", "text">>
    /\ applied.result = [threw |-> FALSE, range |-> TRUE, endLine |-> 2,
                          frontmatter |-> "absent"]

-----------------------------------------------------------------------------
(* Static analysis: src/src/analyzers/static.ts *)

\* What a line may hold: a weak phrase, a word about safety, an ambiguous
\* quantifier, an empty placeholder. A line is the set of those it holds.
Vocabulary == {"try to", "safety", "some", "{{ }}"}

DocLines == UNION {[1..n -> SUBSET Vocabulary] : n \in 1..MaxLines}

\* what the text as a whole shows: nothing, tags next to markdown headers, a
\* format requirement without examples, an instruction given twice
Traits == {"plain", "mixed", "format", "repeated"}

\* documents without a metadata header, with at most one link
StaticDocs ==
    [lines : DocLines, trait : Traits, fileType : {"prompt", "skill"}, large : BOOLEAN,
     link : {"none", "missing"}]

\* a finding with its code, its severity, the line of its range and the text matched
StaticFinding(code, severity, line, match) ==
    [code |-> code, severity |-> severity, line |-> line, match |-> match]

\* a finding about the document as a whole, placed at its first character
DocFinding(code, severity) == StaticFinding(code, severity, 0, "-")

\* doc.lines.forEach with a pattern matched in each line: lines i and after
RECURSIVE LineFindings(_, _, _, _, _)
LineFindings(lines, i, token, code, severity) ==
    IF i > Len(lines) THEN <<>>
    ELSE (IF token \in lines[i] THEN <<StaticFinding(code, severity, i - 1, token)>> ELSE <<>>)
         \o LineFindings(lines, i + 1, token, code, severity)

analyzeVariables(doc) == LineFindings(doc.lines, 1, "{{ }}", "empty-variable", "error")

analyzeInstructionStrength(doc) ==
    LineFindings(doc.lines, 1, "try to", "weak-instruction", "info")

analyzeAmbiguity(doc) == LineFindings(doc.lines, 1, "some", "ambiguous-quantifier", "info")

analyzeStructure(doc) ==
    IF doc.trait = "mixed" THEN <<DocFinding("mixed-conventions", "hint")>> ELSE <<>>

analyzeRedundancy(doc) ==
    IF doc.trait = "repeated" THEN <<DocFinding("redundant-instruction", "info")>> ELSE <<>>

analyzeExamples(doc) ==
    IF doc.trait = "format" THEN <<DocFinding("missing-examples", "info")>> ELSE <<>>

analyzeTokenUsage(doc) ==
    IF doc.large THEN <<DocFinding("large-prompt", "info")>> ELSE <<>>

\* analyzeCompositionLinks of the document: its link, if any, resolves to a
\* file that is not there
LinkFindings(doc) ==
    IF doc.link = "none" THEN <<>>
    ELSE LET found == analyzeCompositionLinks([found |-> TRUE, path |-> <<"/", "w">>], FALSE)
         IN [i \in 1..Len(found) |-> DocFinding(found[i].code, found[i].severity)]

analyzeFrontmatter(doc) ==
    IF doc.fileType = "skill"
    THEN <<DocFinding("skill-missing-frontmatter", "error")>>
    ELSE <<>>

\* an analysis that leaves the ambiguity check to the quick profile
analyzeWithoutAmbiguity(doc) ==
    analyzeVariables(doc) \o analyzeInstructionStrength(doc)
    \o analyzeStructure(doc) \o analyzeRedundancy(doc) \o analyzeExamples(doc)
    \o analyzeTokenUsage(doc) \o LinkFindings(doc) \o analyzeFrontmatter(doc)

analyze(doc) ==
    analyzeVariables(doc) \o analyzeInstructionStrength(doc) \o analyzeAmbiguity(doc)
    \o analyzeStructure(doc) \o analyzeRedundancy(doc) \o analyzeExamples(doc)
    \o analyzeTokenUsage(doc) \o LinkFindings(doc) \o analyzeFrontmatter(doc)

analyzeQuick(doc) ==
    analyzeVariables(doc) \o analyzeInstructionStrength(doc) \o analyzeAmbiguity(doc)
    \o analyzeStructure(doc) \o analyzeRedundancy(doc) \o analyzeExamples(doc)
    \o analyzeFrontmatter(doc)

\* a document on which neither profile has run
StaticInit ==
    /\ BaseInit
    /\ applied \in {[fn |-> "static", doc |-> d, ran |-> {}, quick |-> <<>>, full |-> <<>>] :
                       d \in StaticDocs}

RunAnalyzeQuick ==
    /\ applied.fn = "static"
    /\ "analyzeQuick" \notin applied.ran
    /\ applied' = [applied EXCEPT !.ran = @ \cup {"analyzeQuick"},
                                  !.quick = analyzeQuick(applied.doc)]
    /\ UNCHANGED <<proxyFn, call, clientRequests, cacheVars, serverVars>>

RunAnalyze ==
    /\ applied.fn = "static"
    /\ "analyze" \notin applied.ran
    /\ applied' = [applied EXCEPT !.ran = @ \cup {"analyze"},
                                  !.full = analyze(applied.doc)]
    /\ UNCHANGED <<proxyFn, call, clientRequests, cacheVars, serverVars>>

StaticNext ==
    \/ RunAnalyzeQuick
    \/ RunAnalyze

StaticSpec == StaticInit /\ [][StaticNext]_vars

-----------------------------------------------------------------------------
(* Claims about the static analysis, checked under StaticSpec *)

\* severities by urgency
SeverityRank(severity) ==
    CASE severity = "error" -> 4
      [] severity = "warning" -> 3
      [] severity = "info" -> 2
      [] severity = "hint" -> 1

FindingsOf(results) == {results[i] : i \in 1..Len(results)}

Codes(results) == {results[i].code : i \in 1..Len(results)}

\* C24: a weak phrase on a line with a safety keyword gets a finding whose
\* code differs from, and whose severity is higher than, those of the finding
\* a weak phrase gets on a line without such a keyword.
C24_WeakPhrasingEscalated ==
    "analyze" \in applied.ran =>
        \A i \in 1..Len(applied.doc.lines) :
            {"try to", "safety"} \subseteq applied.doc.lines[i] =>
                \E f \in FindingsOf(applied.full) :
                    /\ f.line = i - 1
                    /\ f.match = "try to"
                    /\ f.code # "weak-instruction"
                    /\ SeverityRank(f.severity) > SeverityRank("info")

\* C25: every finding code that analyzeQuick produces for a document is
\* produced by analyze for the same document.
C25_QuickCodesWithinFull ==
    applied.ran = {"analyze", "analyzeQuick"} =>
        Codes(applied.quick) \subseteq Codes(applied.full)

\* both profiles ran on a document for which the quick one gives findings of
\* several codes and the full one gives more
C25_Witness ==
    /\ applied.ran = {"analyze", "analyzeQuick"}
    /\ Cardinality(Codes(applied.quick)) >= 4
    /\ Codes(applied.full) \ Codes(applied.quick) = {"large-prompt", "composition-missing"}

-----------------------------------------------------------------------------
(* Scheduling of the analyses: src/src/server.ts *)

\* computeCompositeHash: the text, then a separator and the content of each
\* resolved link that could be read
computeCompositeHash(text, linked) ==
    IF HasLink(text) THEN computeHash(<<text, linked>>) ELSE computeHash(<<text>>)

\* staticAnalyzer.analyzeQuick and staticAnalyzer.analyze on a parsed text
QuickResults(text) == <<Finding("quick", "warning", text, "-")>>

StaticResults(text) == <<Finding("static", "warning", text, "-")>>

\* llmAnalyzer.analyze on the parsed text, with the linked content its
\* composed request was built from
LlmResults(text, composed) == <<Finding("llm", "warning", text, composed)>>

\* the runs of document d in flight
RunsOf(d) == {run \in BagToSet(runs) : run.doc = d}

InFlight(d) == BagCardinality([run \in RunsOf(d) |-> runs[run]])

Replace(old, new) == (runs (-) SetToBag({old})) (+) SetToBag({new})

Remove(old) == runs (-) SetToBag({old})

\* documentVersions.get(uri) !== version
IsStale(run) == documentVersions[run.doc] # run.version

\* connection.sendDiagnostics of a full run and of the quick analysis
FullPublication(run, results) ==
    [kind |-> "full", version |-> run.version, results |-> results]

QuickPublication(doc) ==
    [kind |-> "quick", version |-> doc.version, results |-> QuickResults(doc.text)]

\* runFullAnalysis from the cache lookup to the await of llmAnalyzer.analyze:
\* a hit is published and ends the run, a miss goes on to the semantic
\* analysis. others is the bag of the other runs in flight
AfterHash(others, run, m) ==
    LET h == computeCompositeHash(run.text, run.hashed)
        got == CacheGetResult(m, h, now)
    IN /\ cache' = CacheGetMap(m, h, now)
       /\ IF got.found = "hit"
          THEN /\ published' = [published EXCEPT
                                  ![run.doc] = FullPublication(run, got.results)]
               /\ lastEvent' = Published(run, TRUE)
               /\ runs' = others
          ELSE /\ published' = published
               /\ lastEvent' = NoEvent
               /\ runs' = others (+) SetToBag({[run EXCEPT
                             !.pc = IF HasLink(run.text) THEN "compose" ELSE "llm"]})

\* runFullAnalysis(textDocument) up to its first suspension. A text with a
\* link suspends in computeCompositeHash on the file read; a text without one
\* resumes before any other handler can run. manual: started by promptLSP/analyze
runFullAnalysis(d, doc, manual, m) ==
    LET run == [pc |-> "hash", doc |-> d, version |-> doc.version, text |-> doc.text,
                hashed |-> "-", composed |-> "-", manual |-> manual]
    IN /\ BagCardinality(runs) < MaxRuns
       /\ documentVersions' = [documentVersions EXCEPT ![d] = doc.version]
       /\ IF HasLink(doc.text)
          THEN /\ runs' = runs (+) SetToBag({run})
               /\ cache' = m
               /\ published' = published
               /\ lastEvent' = NoEvent
          ELSE AfterHash(runs, run, m)

\* a handler that sets the new timer without clearing the one armed
TimersKept(d) == [handles |-> llmDebounceTimers, armed |-> armed]

\* clearTimeout on the stored handle
TimersCleared(d) ==
    [handles |-> [llmDebounceTimers EXCEPT
                    ![d] = IF llmDebounceTimers[d] = "none" THEN "none" ELSE "dead"],
     armed |-> [armed EXCEPT ![d] = IF llmDebounceTimers[d] = "live" THEN armed[d] - 1
                                    ELSE armed[d]]]

\* documents.onDidChangeContent for uri d, whose document is now doc
onDidChangeContent(d, doc) ==
    LET cleared == TimersCleared(d) IN
    /\ lastEvent' = Change(d, d \in recentlyOpened, llmDebounceTimers[d] = "live")
    /\ IF d \in recentlyOpened
       THEN /\ recentlyOpened' = recentlyOpened \ {d}
            /\ llmDebounceTimers' = cleared.handles
            /\ armed' = cleared.armed
            /\ published' = published
       ELSE /\ recentlyOpened' = recentlyOpened
            /\ published' = [published EXCEPT ![d] = QuickPublication(doc)]
            /\ llmDebounceTimers' = [cleared.handles EXCEPT ![d] = "live"]
            /\ armed' = [cleared.armed EXCEPT ![d] = @ + 1]

\* documents.onDidOpen; the document manager fires the content event of the
\* open next, before anything else runs
DidOpen(d, text) ==
    /\ dispatching = "none"
    /\ ~docs[d].open
    /\ docs' = [docs EXCEPT ![d] = [open |-> TRUE, version |-> 1, text |-> text]]
    /\ recentlyOpened' = recentlyOpened \cup {d}
    /\ runFullAnalysis(d, docs'[d], FALSE, cache)
    /\ dispatching' = d
    /\ UNCHANGED <<llmDebounceTimers, armed, fileText, now, lastOp, llmVars>>

\* the content event that the open of d fires
OpenContentEvent(d) ==
    /\ dispatching = d
    /\ onDidChangeContent(d, docs[d])
    /\ dispatching' = "none"
    /\ UNCHANGED <<docs, documentVersions, runs, fileText, cacheVars, llmVars>>

\* an edit of d arrives: a new version with a new text
Edit(d, text) ==
    /\ dispatching = "none"
    /\ docs[d].open
    /\ docs[d].version < MaxVersion
    /\ text # docs[d].text
    /\ docs' = [docs EXCEPT ![d].version = @ + 1, ![d].text = text]
    /\ onDidChangeContent(d, docs'[d])
    /\ UNCHANGED <<documentVersions, runs, fileText, dispatching, cacheVars, llmVars>>

\* the debounce timer of d fires
TimerFire(d) ==
    /\ dispatching = "none"
    /\ armed[d] > 0
    /\ runFullAnalysis(d, docs[d], FALSE, cache)
    /\ llmDebounceTimers' = [llmDebounceTimers EXCEPT ![d] = "none"]
    /\ armed' = [armed EXCEPT ![d] = @ - 1]
    /\ UNCHANGED <<docs, recentlyOpened, fileText, dispatching, now, lastOp, llmVars>>

\* documents.onDidSave
DidSave(d) ==
    /\ dispatching = "none"
    /\ docs[d].open
    /\ runFullAnalysis(d, docs[d], FALSE, cache)
    /\ UNCHANGED <<docs, recentlyOpened, llmDebounceTimers, armed, fileText, dispatching,
                   now, lastOp, llmVars>>

\* the promptLSP/analyze notification for an open document: cache.clear(),
\* then the run
AnalyzeRequest(d) ==
    /\ dispatching = "none"
    /\ docs[d].open
    /\ runFullAnalysis(d, docs[d], TRUE, <<>>)
    /\ UNCHANGED <<docs, recentlyOpened, llmDebounceTimers, armed, fileText, dispatching,
                   now, lastOp, llmVars>>

\* the promptLSP/clearCache notification
ClearCacheRequest ==
    /\ dispatching = "none"
    /\ cache # <<>>
    /\ cache' = <<>>
    /\ lastEvent' = NoEvent
    /\ UNCHANGED <<docs, documentVersions, recentlyOpened, llmDebounceTimers, armed, runs,
                   published, fileText, dispatching, now, lastOp, llmVars>>

\* documents.onDidClose
DidClose(d) ==
    /\ dispatching = "none"
    /\ docs[d].open
    /\ docs' = [docs EXCEPT ![d] = Closed]
    /\ documentVersions' = [documentVersions EXCEPT ![d] = 0]
    /\ llmDebounceTimers' = [llmDebounceTimers EXCEPT ![d] = "none"]
    /\ armed' = TimersCleared(d).armed
    /\ recentlyOpened' = recentlyOpened \ {d}
    /\ lastEvent' = NoEvent
    /\ UNCHANGED <<runs, published, fileText, dispatching, cacheVars, llmVars>>

\* the file read of computeCompositeHash completes and the run resumes
HashDone(run) ==
    /\ dispatching = "none"
    /\ run.pc = "hash"
    /\ IF IsStale(run)
       THEN /\ runs' = Remove(run)
            /\ lastEvent' = NoEvent
            /\ UNCHANGED <<cache, published>>
       ELSE AfterHash(Remove(run), [run EXCEPT !.hashed = fileText], cache)
    /\ UNCHANGED <<docs, documentVersions, recentlyOpened, llmDebounceTimers, armed,
                   fileText, dispatching, now, lastOp, llmVars>>

\* buildComposedText reads the linked file for the composed request
Compose(run) ==
    /\ dispatching = "none"
    /\ run.pc = "compose"
    /\ runs' = Replace(run, [run EXCEPT !.pc = "llm", !.composed = fileText])
    /\ lastEvent' = NoEvent
    /\ UNCHANGED <<docs, documentVersions, recentlyOpened, llmDebounceTimers, armed,
                   published, fileText, dispatching, cacheVars, llmVars>>

\* llmAnalyzer.analyze returns to the run, which checks for staleness, caches
\* and publishes
LlmDone(run) ==
    /\ dispatching = "none"
    /\ run.pc = "llm"
    /\ LET allResults == StaticResults(run.text) \o LlmResults(run.text, run.composed)
       IN IF IsStale(run)
          THEN /\ lastEvent' = NoEvent
               /\ UNCHANGED <<cache, published>>
          ELSE /\ cache' = CacheSet(cache, computeCompositeHash(run.text, run.hashed),
                                    allResults, 0, now, DefaultMaxEntries)
               /\ published' = [published EXCEPT
                                  ![run.doc] = FullPublication(run, allResults)]
               /\ lastEvent' = Published(run, FALSE)
    /\ runs' = Remove(run)
    /\ UNCHANGED <<docs, documentVersions, recentlyOpened, llmDebounceTimers, armed,
                   fileText, dispatching, now, lastOp, llmVars>>

\* the linked file is rewritten on disk
FileWrite(c) ==
    /\ dispatching = "none"
    /\ c # fileText
    /\ fileText' = c
    /\ lastEvent' = NoEvent
    /\ UNCHANGED <<docs, documentVersions, recentlyOpened, llmDebounceTimers, armed, runs,
                   published, dispatching, cacheVars, llmVars>>

\* one document whose text may link to a file that is rewritten on disk
Next ==
    \/ \E d \in LinkingDocs, text \in DocTexts : DidOpen(d, text)
    \/ \E d \in LinkingDocs : OpenContentEvent(d)
    \/ \E d \in LinkingDocs, text \in DocTexts : Edit(d, text)
    \/ \E d \in LinkingDocs : TimerFire(d)
    \/ \E d \in LinkingDocs : DidSave(d)
    \/ \E d \in LinkingDocs : AnalyzeRequest(d)
    \/ ClearCacheRequest
    \/ \E d \in LinkingDocs : DidClose(d)
    \/ \E run \in BagToSet(runs) : HashDone(run)
    \/ \E run \in BagToSet(runs) : Compose(run)
    \/ \E run \in BagToSet(runs) : LlmDone(run)
    \/ \E c \in FileContents : FileWrite(c)

Spec == Init /\ [][Next]_vars

\* two documents whose texts have no composition links, opened, edited,
\* saved and closed while the client clears the cache at will
PlainNext ==
    \/ \E d \in Docs : DidOpen(d, InitialText[d])
    \/ \E d \in Docs : OpenContentEvent(d)
    \/ \E d \in Docs, text \in PlainTexts : Edit(d, text)
    \/ \E d \in Docs : TimerFire(d)
    \/ \E d \in Docs : DidSave(d)
    \/ ClearCacheRequest
    \/ \E d \in Docs : DidClose(d)
    \/ \E run \in BagToSet(runs) : LlmDone(run)

PlainSpec == Init /\ [][PlainNext]_vars

\* what llmAnalyzer.analyze returns when every request it made failed, and
\* when no proxy function is set
DegradedResults == {<<>>, <<DisabledHint>>}

\* llmAnalyzer.analyze returns to the run without findings of the provider;
\* the run checks for staleness, caches and publishes as after any analysis
LlmDegraded(run, llmResults) ==
    /\ dispatching = "none"
    /\ run.pc = "llm"
    /\ LET allResults == StaticResults(run.text) \o llmResults
       IN IF IsStale(run)
          THEN /\ lastEvent' = NoEvent
               /\ UNCHANGED <<cache, published>>
          ELSE /\ cache' = CacheSet(cache, computeCompositeHash(run.text, run.hashed),
                                    allResults, 0, now, DefaultMaxEntries)
               /\ published' = [published EXCEPT
                                  ![run.doc] = FullPublication(run, allResults)]
               /\ lastEvent' = Published(run, FALSE)
    /\ runs' = Remove(run)
    /\ UNCHANGED <<docs, documentVersions, recentlyOpened, llmDebounceTimers, armed,
                   fileText, dispatching, now, lastOp, llmVars>>

\* one document without links, whose semantic analysis may fail
DegradedNext ==
    \/ \E d \in LinkingDocs : DidOpen(d, InitialText[d])
    \/ \E d \in LinkingDocs : OpenContentEvent(d)
    \/ \E d \in LinkingDocs, text \in PlainTexts : Edit(d, text)
    \/ \E d \in LinkingDocs : TimerFire(d)
    \/ \E d \in LinkingDocs : DidSave(d)
    \/ \E d \in LinkingDocs : DidClose(d)
    \/ \E run \in BagToSet(runs) : LlmDone(run)
    \/ \E run \in BagToSet(runs), r \in DegradedResults : LlmDegraded(run, r)

DegradedSpec == Init /\ [][DegradedNext]_vars

\* detectFileType(uri): d1 is a prompt file, d2 a SKILL.md
FileTypeOf == [d \in Docs |-> IF d = "d1" THEN "prompt" ELSE "skill"]

\* staticAnalyzer.analyze on the document parsed for uri d: the findings of
\* the text, and for a skill file without a header the finding of
\* analyzeFrontmatter
StaticResultsOf(d, text) ==
    StaticResults(text)
    \o (IF FileTypeOf[d] = "skill"
        THEN <<Finding("skill-missing-frontmatter", "error", text, "-")>>
        ELSE <<>>)

\* the end of a run, with the static findings of the document of the run
LlmDoneOf(run) ==
    /\ dispatching = "none"
    /\ run.pc = "llm"
    /\ LET allResults == StaticResultsOf(run.doc, run.text)
                            \o LlmResults(run.text, run.composed)
       IN IF IsStale(run)
          THEN /\ lastEvent' = NoEvent
               /\ UNCHANGED <<cache, published>>
          ELSE /\ cache' = CacheSet(cache, computeCompositeHash(run.text, run.hashed),
                                    allResults, 0, now, DefaultMaxEntries)
               /\ published' = [published EXCEPT
                                  ![run.doc] = FullPublication(run, allResults)]
               /\ lastEvent' = Published(run, FALSE)
    /\ runs' = Remove(run)
    /\ UNCHANGED <<docs, documentVersions, recentlyOpened, llmDebounceTimers, armed,
                   fileText, dispatching, now, lastOp, llmVars>>

\* two documents of different file types that hold the same text
IdentityNext ==
    \/ \E d \in Docs : DidOpen(d, "plain")
    \/ \E d \in Docs : OpenContentEvent(d)
    \/ \E d \in Docs : DidSave(d)
    \/ \E d \in Docs : DidClose(d)
    \/ \E run \in BagToSet(runs) : LlmDoneOf(run)

IdentitySpec == Init /\ [][IdentityNext]_vars

\* one document without composition links that is opened with either text,
\* edited, saved, closed and opened again while runs are in flight
SettleNext ==
    \/ \E d \in LinkingDocs, text \in PlainTexts : DidOpen(d, text)
    \/ \E d \in LinkingDocs : OpenContentEvent(d)
    \/ \E d \in LinkingDocs, text \in PlainTexts : Edit(d, text)
    \/ \E d \in LinkingDocs : TimerFire(d)
    \/ \E d \in LinkingDocs : DidSave(d)
    \/ \E d \in LinkingDocs : DidClose(d)
    \/ \E run \in BagToSet(runs) : LlmDone(run)

\* the document manager fires the content event of an open at once, an armed
\* setTimeout callback runs after LLM_DEBOUNCE_DELAY, and every provider
\* request answers or fails, which resumes the run awaiting it
SettleFairness ==
    /\ \A d \in LinkingDocs : WF_vars(OpenContentEvent(d))
    /\ \A d \in LinkingDocs : WF_vars(TimerFire(d))
    /\ WF_vars(\E run \in BagToSet(runs) : LlmDone(run))

SettleSpec == Init /\ [][SettleNext]_vars /\ SettleFairness

-----------------------------------------------------------------------------
(* Claims about the scheduling *)

\* C1: when the version of a document advances while a full run of it is in
\* progress, that run publishes nothing: whenever a run has just published,
\* under Spec, the version it analysed is the version the document has.
C1_StaleRunNeverPublishes ==
    lastEvent.type = "publish" =>
        published[lastEvent.doc].version = docs[lastEvent.doc].version

\* C2: under Spec and every mix of triggers, a document never has more than
\* one full run in flight.
C2_OneRunInFlight == \A d \in Docs : InFlight(d) <= 1

\* C3: under Spec, findings that a run has just published from a cache entry
\* were computed from the current text of the document and, where they depend
\* on the linked file, from the very content that entered the digest.
C3_CachedFindingsMatchInputs ==
    (lastEvent.type = "publish" /\ lastEvent.fromCache) =>
        LET results == published[lastEvent.doc].results IN
        \A i \in 1..Len(results) :
            /\ results[i].text = docs[lastEvent.doc].text
            /\ results[i].code = "llm" => results[i].link = lastEvent.hashed

\* C4: under Spec, the run that a promptLSP/analyze request starts after
\* clearing the cache never publishes findings read from the cache, whatever
\* other runs interleave with it.
C4_ReanalyzeNeverFromCache ==
    ~(lastEvent.type = "publish" /\ lastEvent.manual /\ lastEvent.fromCache)

\* C5 as stated: after every content event of PlainSpec exactly one timer is
\* armed for the document and the quick findings of its text are published.
C5_EveryChangeEvent ==
    lastEvent.type = "change" =>
        /\ armed[lastEvent.doc] = 1
        /\ published[lastEvent.doc] = QuickPublication(docs[lastEvent.doc])

\* C5, amended: under PlainSpec every content event leaves no earlier timer of
\* its document armed and touches no other document. The content event that
\* accompanies an open publishes nothing and arms no timer; every other one
\* publishes the quick findings of the new text and leaves exactly one timer
\* armed.
C5_ChangeEventStep ==
    [][lastEvent'.type = "change" =>
         LET d == lastEvent'.doc IN
         /\ \A e \in Docs \ {d} : armed'[e] = armed[e] /\ published'[e] = published[e]
         /\ IF lastEvent'.initial
            THEN armed'[d] = 0 /\ published'[d] = published[d]
            ELSE /\ armed'[d] = 1
                 /\ llmDebounceTimers'[d] = "live"
                 /\ published'[d] = QuickPublication(docs'[d])]_vars

\* an edit arrived while the timer of an earlier edit was still armed
C5_Witness ==
    /\ lastEvent.type = "change"
    /\ ~lastEvent.initial
    /\ lastEvent.cancelled
    /\ docs[lastEvent.doc].version = MaxVersion

\* findings that hold what the provider found
HasProviderFindings(results) == \E i \in 1..Len(results) : results[i].code = "llm"

\* C27: the findings of a full run whose semantic analysis failed or was
\* unavailable are not stored in the cache: no later run publishes from the
\* cache findings without those of the provider.
C27_DegradedNotServedFromCache ==
    (lastEvent.type = "publish" /\ lastEvent.fromCache) =>
        HasProviderFindings(published[lastEvent.doc].results)

\* C28: the findings a run publishes for a document are those a fresh
\* analysis of that document gives, also when they come from the cache and
\* another document holds the same text.
C28_CacheHitMatchesDocument ==
    lastEvent.type = "publish" =>
        published[lastEvent.doc].results =
            StaticResultsOf(lastEvent.doc, docs[lastEvent.doc].text)
                \o LlmResults(docs[lastEvent.doc].text, "-")


\* the document the client holds at version v with text t, and the full
\* findings of that text published for that version
OpenAt(v, t) == [open |-> TRUE, version |-> v, text |-> t]

FullFindingsAt(v, t) ==
    [kind |-> "full", version |-> v,
     results |-> StaticResults(t) \o LlmResults(t, "-")]

\* C29: once the edits of an open document have stopped and every provider
\* request has answered, the diagnostics last published for the document are,
\* from some point on, the full findings of its latest version
C29_SettlesOnLatestFull ==
    \A d \in LinkingDocs, v \in 1..MaxVersion, t \in PlainTexts :
        <>[](docs[d] = OpenAt(v, t)) => <>[](published[d] = FullFindingsAt(v, t))

=============================================================================
